---- MODULE Spec2Model ----
(***************************************************************************)
(* Model of src/Automata.py: class FiniteAutomaton.                        *)
(*                                                                         *)
(* The automaton is the five fields set by __init__.  The Python field     *)
(* `transitions` is a dict state -> dict symbol -> set of states whose     *)
(* only writer is add_transition, which creates the two dict levels on     *)
(* demand and then adds one destination.  Hence a state is a key of        *)
(* `transitions` exactly when some triple leaves it, a symbol is a key of  *)
(* transitions[state] exactly when some triple (state, symbol, _) exists,  *)
(* and no recorded destination set is empty: the dict of dicts is the set  *)
(* of triples <<from_state, symbol, to_state>>, which is how it is kept    *)
(* here.                                                                   *)
(***************************************************************************)
EXTENDS Integers, Sequences, FiniteSets, TLC

\* ------------------------------------------------------------------ bounds
\* Largest number of add_transition calls made while the automaton is built.
MaxTrans == 2

\* Longest input word on which two automata are compared.
MaxWord == 2

\* ------------------------------------------------------------- input values
\* The epsilon label written in the source (lines 100 and 116).
Eps == "Îµ"

\* State labels the loader may use.  "i" and "p" are the labels standardize
\* and complete hard-code; nothing stops an input file from using them.
Labels == {"q0", "i", "p"}

\* Symbols the loader may use.
Symbols == {"a", Eps}

\* The five fields of the automaton; `last` is the method called last ("load"
\* while only add_* calls were made), `err` the exception that call raised,
\* `pre` the automaton and `last` as they were before the last transformation,
\* `ret` the argument and the outcome of the last epsilon_closure call.
VARIABLES states, alphabet, start_state, accept_states, transitions,
          last, err, pre, ret

vars == <<states, alphabet, start_state, accept_states, transitions,
          last, err, pre, ret>>

\* The automaton object as a value.
Cur ==
  [states |-> states, alphabet |-> alphabet, start_state |-> start_state,
   accept_states |-> accept_states, transitions |-> transitions]

\* FiniteAutomaton(): the five empty containers.
EmptyFA ==
  [states |-> {}, alphabet |-> {}, start_state |-> {},
   accept_states |-> {}, transitions |-> {}]

\* --------------------------------------------------------- dict accessors
\* state in fa.transitions
HasEntry(T, s) == \E t \in T : t[1] = s

\* the keys of fa.transitions.get(state, {})
Syms(T, s) == {t[2] : t \in {u \in T : u[1] = s}}

\* fa.transitions.get(state, {}).get(symbol, set())
Dest(T, s, a) == {t[3] : t \in {u \in T : u[1] = s /\ u[2] = a}}

\* the keys of fa.transitions
Sources(T) == {t[1] : t \in T}

\* ---------------------------------------------------------- classification
is_standard(fa) == Cardinality(fa.start_state) = 1

is_complete(fa) ==
  \A s \in fa.states :
     /\ HasEntry(fa.transitions, s)
     /\ \A a \in fa.alphabet : a \in Syms(fa.transitions, s)

is_deterministic(fa) ==
  \A s \in Sources(fa.transitions) :
     /\ \A a \in fa.alphabet :
           ~ (a \in Syms(fa.transitions, s)
              /\ Cardinality(Dest(fa.transitions, s, a)) > 1)
     /\ Eps \notin Syms(fa.transitions, s)

fa_type(fa) ==
  LET d == IF is_deterministic(fa) THEN <<"deterministic">> ELSE <<>>
      c == IF is_complete(fa) THEN <<"complete">> ELSE <<>>
      s == IF is_standard(fa) THEN <<"standard">> ELSE <<>>
      l == d \o c \o s
  IN  IF l = <<>> THEN <<"not recognized">> ELSE l

\* ------------------------------------------------------------- complete
sink_state == "p"

\* complete as it would be with the states visited taken before the sink is
\* added and the sink's self-loops (lines 66-67) left out.
complete_snapshot(fa) ==
  IF is_complete(fa) THEN fa
  ELSE
    LET toSink == {<<s, a, sink_state>> : s \in fa.states, a \in fa.alphabet}
        missing == {t \in toSink : t[2] \notin Syms(fa.transitions, t[1])}
    IN  [fa EXCEPT !.states = fa.states \cup {sink_state},
                   !.transitions = fa.transitions \cup missing]

complete(fa) ==
  IF is_complete(fa) THEN fa
  ELSE
    LET S1 == fa.states \cup {sink_state}
        toSink == {<<s, a, sink_state>> : s \in S1, a \in fa.alphabet}
        missing == {t \in toSink : t[2] \notin Syms(fa.transitions, t[1])}
        loops == {<<sink_state, a, sink_state>> : a \in fa.alphabet}
    IN  [fa EXCEPT !.states = S1,
                   !.transitions = fa.transitions \cup missing \cup loops]

\* ------------------------------------------------------------ standardize
new_start_state == "i"

standardize(fa) ==
  IF is_standard(fa) THEN fa
  ELSE
    LET copied == {<<new_start_state, t[2], t[3]>> :
                     t \in {u \in fa.transitions : u[1] \in fa.start_state}}
    IN  [fa EXCEPT !.states = fa.states \cup {new_start_state},
                   !.transitions = fa.transitions \cup copied,
                   !.start_state = {new_start_state}]

\* -------------------------------------------------------- epsilon_closure
\* Some enumeration of a finite set: the order in which a Python `for`
\* visits a set.  The closure computed below does not depend on it.
RECURSIVE SetToSeq(_)
SetToSeq(S) ==
  IF S = {} THEN <<>>
  ELSE LET x == CHOOSE y \in S : TRUE IN <<x>> \o SetToSeq(S \ {x})

\* The while loop as it would be without stack.append(next_state) (line 104).
RECURSIVE ClosureLoop_nopush(_, _, _, _)
ClosureLoop_nopush(fa, closure, stack, steps) ==
  IF stack = <<>> THEN [closure |-> closure, steps |-> steps]
  ELSE
    LET current_state == stack[Len(stack)]
        rest == SubSeq(stack, 1, Len(stack) - 1)
        epsilon_transitions == Dest(fa.transitions, current_state, Eps)
        fresh == epsilon_transitions \ closure
    IN  ClosureLoop_nopush(fa, closure \cup fresh, rest, steps + 1)

\* The while loop of epsilon_closure: `closure`, `stack`, and the number of
\* iterations made so far.
RECURSIVE ClosureLoop(_, _, _, _)
ClosureLoop(fa, closure, stack, steps) ==
  IF stack = <<>> THEN [closure |-> closure, steps |-> steps]
  ELSE
    LET current_state == stack[Len(stack)]
        rest == SubSeq(stack, 1, Len(stack) - 1)
        epsilon_transitions == Dest(fa.transitions, current_state, Eps)
        fresh == epsilon_transitions \ closure
    IN  ClosureLoop(fa, closure \cup fresh, rest \o SetToSeq(fresh), steps + 1)

epsilon_closure_run(fa, state) == ClosureLoop(fa, {state}, <<state>>, 0)

epsilon_closure(fa, state) == epsilon_closure_run(fa, state).closure

\* ------------------------------------------------------------ determinize
\* f'q{n}'
QName(n) == "q" \o ToString(n)

\* The orders in which `for symbol in self.alphabet` may visit the set.
Orders(S) ==
  {f \in [1..Cardinality(S) -> S] : \A j, k \in 1..Cardinality(S) : f[j] = f[k] => j = k}

\* state_mapping is kept as the sequence of its keys in insertion order: the
\* k-th key is named q(k-1).  Every key is appended to `queue` exactly when it
\* is inserted (the first one by line 137), and queue.pop(0) is FIFO, so the
\* queue is the part of the sequence from `head` on.
NameOf(subsets, S) == QName((CHOOSE k \in 1..Len(subsets) : subsets[k] = S) - 1)

\* new_fa and the loop variables before the while loop (lines 125-138).
DetStart(start_closure) ==
  [subsets |-> <<start_closure>>, head |-> 1, states |-> {},
   accept_states |-> {}, transitions |-> {}, err |-> "none"]

\* One iteration of `for symbol in self.alphabet` (lines 149-170).
DetSymbol(fa, L, current_states, symbol) ==
  LET next_states == UNION {Dest(fa.transitions, s, symbol) : s \in current_states}
      next_states_epsilon == UNION {epsilon_closure(fa, s) : s \in next_states}
      known == \E k \in 1..Len(L.subsets) : L.subsets[k] = next_states_epsilon
      new_state_name == QName(Len(L.subsets))
      subsets1 == IF known THEN L.subsets ELSE Append(L.subsets, next_states_epsilon)
  IN  IF L.err # "none" THEN L
      ELSE IF \E s \in next_states : s \notin fa.states
        THEN [L EXCEPT !.err = "KeyError"]
      ELSE IF next_states_epsilon = {} THEN L
      ELSE [L EXCEPT
              !.subsets = subsets1,
              !.states = IF known THEN @ ELSE @ \cup {new_state_name},
              !.accept_states =
                 IF ~known /\ next_states_epsilon \cap fa.accept_states # {}
                 THEN @ \cup {new_state_name} ELSE @,
              !.transitions = @ \cup {<<NameOf(L.subsets, current_states), symbol,
                                        NameOf(subsets1, next_states_epsilon)>>}]

RECURSIVE DetSymbols(_, _, _, _, _)
DetSymbols(fa, L, current_states, ord, k) ==
  IF k > Len(ord) THEN L
  ELSE DetSymbols(fa, DetSymbol(fa, L, current_states, ord[k]), current_states, ord, k + 1)

\* The while loop over the queue (lines 140-170).
RECURSIVE DetLoop(_, _, _)
DetLoop(fa, L, ord) ==
  IF L.err # "none" \/ L.head > Len(L.subsets) THEN L
  ELSE
    LET current_states == L.subsets[L.head]
        L1 == [L EXCEPT
                 !.head = @ + 1,
                 !.accept_states =
                    IF current_states \cap fa.accept_states # {}
                    THEN @ \cup {NameOf(L.subsets, current_states)} ELSE @]
    IN  DetLoop(fa, DetSymbols(fa, L1, current_states, ord, 1), ord)

\* determinize on an automaton that is not is_deterministic and has a start
\* state: `pick` is next(iter(self.start_state)), `ord` the order in which the
\* alphabet is visited.  The result carries the returned automaton, or the
\* exception raised and the automaton the call was made on.
subset_construction(fa, pick, ord) ==
  LET L == DetLoop(fa, DetStart(epsilon_closure(fa, pick)), ord)
  IN  IF L.err # "none" THEN [fa |-> fa, err |-> L.err]
      ELSE [fa |-> [states |-> L.states, alphabet |-> {}, start_state |-> {"q0"},
                    accept_states |-> L.accept_states, transitions |-> L.transitions],
            err |-> "none"]

\* Every outcome of determinize: set iteration order is not fixed by Python.
determinize(fa) ==
  IF is_deterministic(fa) THEN {[fa |-> fa, err |-> "none"]}
  ELSE IF fa.start_state = {} THEN {[fa |-> fa, err |-> "StopIteration"]}
  ELSE {subset_construction(fa, pick, ord) :
          pick \in fa.start_state, ord \in Orders(fa.alphabet)}

\* ------------------------------------------------------------ the program
Init ==
  /\ states = {}
  /\ alphabet = {}
  /\ start_state = {}
  /\ accept_states = {}
  /\ transitions = {}
  /\ last = "load"
  /\ err = "none"
  /\ pre = [fa |-> EmptyFA, last |-> "load"]
  /\ ret = [state |-> "", closure |-> {}, steps |-> 0]

\* The add_* methods have no condition of their own.  They are called here
\* while the automaton is being built, before any transformation runs, and
\* add_transition at most until MaxTrans transitions are recorded.
Loading == last = "load" /\ err = "none"

add_state(state) ==
  /\ Loading
  /\ states' = states \cup {state}
  /\ UNCHANGED <<alphabet, start_state, accept_states, transitions, last, err, pre, ret>>

add_symbol(symbol) ==
  /\ Loading
  /\ alphabet' = alphabet \cup {symbol}
  /\ UNCHANGED <<states, start_state, accept_states, transitions, last, err, pre, ret>>

add_start_state(state) ==
  /\ Loading
  /\ start_state' = start_state \cup {state}
  /\ UNCHANGED <<states, alphabet, accept_states, transitions, last, err, pre, ret>>

add_accept_state(state) ==
  /\ Loading
  /\ accept_states' = accept_states \cup {state}
  /\ UNCHANGED <<states, alphabet, start_state, transitions, last, err, pre, ret>>

add_transition(from_state, symbol, to_state) ==
  /\ Loading
  /\ Cardinality(transitions \cup {<<from_state, symbol, to_state>>}) <= MaxTrans
  /\ transitions' = transitions \cup {<<from_state, symbol, to_state>>}
  /\ UNCHANGED <<states, alphabet, start_state, accept_states, last, err, pre, ret>>

\* The automaton becomes `fa`; the state before the call is remembered.
Becomes(fa, op, e) ==
  /\ states' = fa.states
  /\ alphabet' = fa.alphabet
  /\ start_state' = fa.start_state
  /\ accept_states' = fa.accept_states
  /\ transitions' = fa.transitions
  /\ last' = op
  /\ err' = e
  /\ pre' = [fa |-> Cur, last |-> last]
  /\ UNCHANGED ret

Standardize ==
  /\ err = "none"
  /\ Becomes(standardize(Cur), "standardize", "none")

Complete ==
  /\ err = "none"
  /\ Becomes(complete(Cur), "complete", "none")

\* The caller goes on with the automaton determinize returns.
Determinize ==
  /\ err = "none"
  /\ \E r \in determinize(Cur) : Becomes(r.fa, "determinize", r.err)

EpsilonClosure(state) ==
  /\ err = "none"
  /\ ret' = [state |-> state] @@ epsilon_closure_run(Cur, state)
  /\ last' = "epsilon_closure"
  /\ UNCHANGED <<states, alphabet, start_state, accept_states, transitions, err, pre>>

\* The automaton is loaded from a description that names a state before it
\* refers to it, and is then transformed.
Next ==
  \/ \E s \in Labels : add_state(s)
  \/ \E a \in Symbols : add_symbol(a)
  \/ \E s \in states : add_start_state(s)
  \/ \E s \in states : add_accept_state(s)
  \/ \E f \in states, a \in Symbols, t \in states : add_transition(f, a, t)
  \/ Standardize
  \/ Complete
  \/ Determinize

Spec == Init /\ [][Next]_vars

\* complete reads states, alphabet and transitions only: any states, any
\* alphabet, any transitions (their labels registered as states or not).
NextComplete ==
  \/ \E s \in Labels : add_state(s)
  \/ \E a \in Symbols : add_symbol(a)
  \/ \E f \in Labels, a \in Symbols, t \in Labels : add_transition(f, a, t)
  \/ Complete

SpecComplete == Init /\ [][NextComplete]_vars

\* epsilon_closure reads transitions only: any transitions, any state.
NextClosure ==
  \/ \E f \in Labels, a \in Symbols, t \in Labels : add_transition(f, a, t)
  \/ \E s \in Labels : EpsilonClosure(s)

SpecClosure == Init /\ [][NextClosure]_vars

\* ================================================================ claims
\* ---------------------------------------------------- notions the claims use
\* Every label of start_state, accept_states and of the transition relation is
\* a member of states.
LabelClosed(fa) ==
  /\ fa.start_state \subseteq fa.states
  /\ fa.accept_states \subseteq fa.states
  /\ \A t \in fa.transitions : t[1] \in fa.states /\ t[3] \in fa.states

\* At most one destination per recorded (state, symbol) and no epsilon
\* transition.
SingleValued(fa) ==
  \A t \in fa.transitions :
     /\ t[2] # Eps
     /\ Cardinality(Dest(fa.transitions, t[1], t[2])) <= 1

\* t is reachable from s by zero or more epsilon transitions: some path of
\* epsilon transitions leads from s to t.
EpsReach(T, s) ==
  LET N == {s} \cup {t[1] : t \in T} \cup {t[3] : t \in T}
      n == Cardinality(N)
  IN  {t \in N :
         \E k \in 1..n : \E path \in [1..k -> N] :
            /\ path[1] = s
            /\ path[k] = t
            /\ \A j \in 1..(k - 1) : <<path[j], Eps, path[j + 1]>> \in T}

\* The language of an automaton with epsilon transitions and any number of
\* start states.
RECURSIVE EClose(_, _)
EClose(T, S) ==
  LET S1 == S \cup {t[3] : t \in {u \in T : u[1] \in S /\ u[2] = Eps}}
  IN  IF S1 = S THEN S ELSE EClose(T, S1)

Move(T, S, a) == EClose(T, UNION {Dest(T, s, a) : s \in S})

RECURSIVE RunWord(_, _, _)
RunWord(T, S, w) ==
  IF w = <<>> THEN S ELSE RunWord(T, Move(T, S, Head(w)), Tail(w))

Accepts(fa, w) ==
  RunWord(fa.transitions, EClose(fa.transitions, fa.start_state), w)
     \cap fa.accept_states # {}

Words(A, n) == UNION {[1..k -> A] : k \in 0..n}

\* symbol -> destination set of one state, as the set of its (symbol,
\* destination) pairs.
OutMap(T, S) == {<<t[2], t[3]>> : t \in {u \in T : u[1] \in S}}

\* -------------------------------------------------------------------- C1
\* C1: the automaton determinize returns satisfies is_deterministic.
C1_DeterminizeIsDeterministic ==
  (last = "determinize" /\ err = "none") => is_deterministic(Cur)

\* -------------------------------------------------------------------- C2
\* C2: determinize(A) accepts exactly the words over the non-epsilon alphabet
\* (up to MaxWord symbols) that A accepts, for one or several start states.
C2_DeterminizeEquivalent ==
  (last = "determinize" /\ err = "none") =>
     \A w \in Words(pre.fa.alphabet \ {Eps}, MaxWord) :
        Accepts(Cur, w) <=> Accepts(pre.fa, w)

\* -------------------------------------------------------------------- C3
\* C3: after complete(), is_complete returns true.
C3_CompleteIsComplete ==
  last = "complete" => is_complete(Cur)

\* -------------------------------------------------------------------- C4
\* C4: standardize on two or more start states leaves exactly one start state,
\* whose outgoing transitions are exactly the union of the outgoing
\* transitions the original start states had.
C4_StandardizeUnion ==
  (last = "standardize" /\ Cardinality(pre.fa.start_state) >= 2) =>
     /\ Cardinality(start_state) = 1
     /\ OutMap(transitions, start_state)
          = OutMap(pre.fa.transitions, pre.fa.start_state)

\* -------------------------------------------------------------------- C5
\* C5: no operation raises an error on an automaton that satisfies the
\* data-model invariants, zero start states included.
C5_NeverFails ==
  LabelClosed(pre.fa) => err = "none"

\* -------------------------------------------------------------------- C6
\* C6: a transformation applied to a label-closed automaton yields a
\* label-closed automaton.
C6_LabelClosurePreserved ==
  (last # "load" /\ err = "none" /\ LabelClosed(pre.fa)) => LabelClosed(Cur)

\* -------------------------------------------------------------------- C7
\* C7: a second complete() leaves the transition relation as the first one
\* left it.
C7_CompleteIdempotent ==
  (last = "complete" /\ pre.last = "complete") =>
     transitions = pre.fa.transitions

\* complete() ran twice, and the first run added transitions (the loader adds
\* at most MaxTrans).
C7_Witness ==
  /\ last = "complete"
  /\ pre.last = "complete"
  /\ Cardinality(transitions) > MaxTrans
  /\ \E t \in transitions : t[1] # sink_state /\ t[3] = sink_state

\* -------------------------------------------------------------------- C8
\* C8: epsilon_closure(s) contains s, is exactly the set of states reachable
\* from s by epsilon transitions, is a fixed point of closing again, and its
\* loop makes one iteration per state of the closure (so it ends, on cycles
\* too).
C8_EpsilonClosureExact ==
  last = "epsilon_closure" =>
     /\ ret.state \in ret.closure
     /\ ret.closure = EpsReach(transitions, ret.state)
     /\ UNION {epsilon_closure(Cur, t) : t \in ret.closure} = ret.closure
     /\ ret.steps = Cardinality(ret.closure)

\* epsilon_closure ran on a state that lies on an epsilon cycle through
\* another state.
C8_Witness ==
  /\ last = "epsilon_closure"
  /\ \E t \in ret.closure \ {ret.state} :
        /\ <<ret.state, Eps, t>> \in transitions
        /\ <<t, Eps, ret.state>> \in transitions

\* -------------------------------------------------------------------- C9
\* C9: is_deterministic is false exactly when some recorded (state, symbol)
\* pair has more than one destination, whatever the symbol, or some state has
\* an outgoing epsilon transition.
C9_IsDeterministicExact ==
  is_deterministic(Cur) <=> SingleValued(Cur)

\* ------------------------------------------------------------------- C10
\* C10: complete() adds no epsilon transition and keeps a deterministic
\* automaton deterministic.
C10_CompletePreservesDeterminism ==
  last = "complete" =>
     /\ \A t \in transitions \ pre.fa.transitions : t[2] # Eps
     /\ is_deterministic(pre.fa) => is_deterministic(Cur)

====
